---- MODULE Spec2Model ----
(***************************************************************************)
(* A model of the command protocol engine of pyfoscam                      *)
(* (src/src/libpyfoscam/foscam.py): FoscamCamera.__init__, send_command,   *)
(* execute_command and the read-modify-write composites                    *)
(* set_motion_detection / set_motion_detection1.                           *)
(*                                                                         *)
(* Python values are modelled by records of one shape each, so that any    *)
(* two of them can be compared:                                            *)
(*   a scalar      [t, s, n]     None, a str (sequence of characters) or   *)
(*                               an int                                    *)
(*   a mapping     a sequence of [k, v] entries in insertion order         *)
(*                 (collections.OrderedDict)                               *)
(*   a body        [kind, elems] the bytes urlopen(...).read() delivers    *)
(*   a result      [kind, map, body]  None, a mapping or the raw bytes     *)
(***************************************************************************)
EXTENDS Integers, Sequences, FiniteSets, TLC

(***************************************************************************)
(* Error codes, foscam.py lines 31-38.                                     *)
(***************************************************************************)
FOSCAM_SUCCESS == 0

ERROR_FOSCAM_FORMAT == -1

ERROR_FOSCAM_AUTH == -2

ERROR_FOSCAM_CMD == -3

ERROR_FOSCAM_EXE == -4

ERROR_FOSCAM_TIMEOUT == -5

ERROR_FOSCAM_UNKNOWN == -7

ERROR_FOSCAM_UNAVAILABLE == -8

(***************************************************************************)
(* Bounds of the model.                                                    *)
(***************************************************************************)
\* elements of an arbitrary XML response (SpecDecode)
MaxElems == 3

\* execute_command calls in one behaviour
MaxCalls == 3

\* threads of detached calls running at the same time
MaxTasks == 1

(***************************************************************************)
(* Scalars.                                                                *)
(***************************************************************************)
None == [t |-> "none", s |-> <<>>, n |-> 0]

Str(s) == [t |-> "str", s |-> s, n |-> 0]

PyNum(n) == [t |-> "int", s |-> <<>>, n |-> n]

Digits == <<"0", "1", "2", "3", "4", "5", "6", "7", "8", "9">>

IsDigit(c) == \E i \in 1..10 : Digits[i] = c

DigitVal(c) == (CHOOSE i \in 1..10 : Digits[i] = c) - 1

RECURSIVE NatVal(_)
\* the value of a non-empty sequence of decimal digits
NatVal(s) ==
    IF Len(s) = 0 THEN 0
    ELSE 10 * NatVal(SubSeq(s, 1, Len(s) - 1)) + DigitVal(s[Len(s)])

AllDigits(s) == Len(s) > 0 /\ \A i \in 1..Len(s) : IsDigit(s[i])

\* int(x) returns (does not raise TypeError / ValueError): x is a str holding
\* an optional sign and decimal digits.  int(None) raises TypeError.
PyIntOk(v) ==
    /\ v.t = "str"
    /\ Len(v.s) > 0
    /\ IF v.s[1] \in {"-", "+"} THEN AllDigits(Tail(v.s)) ELSE AllDigits(v.s)

\* an int() that drops the sign
PyIntUnsigned(v) == IF v.s[1] \in {"-", "+"} THEN NatVal(Tail(v.s)) ELSE NatVal(v.s)

\* int(x) for such a str
PyInt(v) ==
    IF v.s[1] = "-" THEN 0 - NatVal(Tail(v.s))
    ELSE IF v.s[1] = "+" THEN NatVal(Tail(v.s))
    ELSE NatVal(v.s)

RECURSIVE NatStr(_)
NatStr(n) == IF n < 10 THEN <<Digits[n + 1]>> ELSE NatStr(n \div 10) \o <<Digits[(n % 10) + 1]>>

\* str(v), as urlencode (line 81) writes a value
PyStr(v) ==
    IF v.t = "none" THEN <<"N", "o", "n", "e">>
    ELSE IF v.t = "int" THEN (IF v.n < 0 THEN <<"-">> \o NatStr(0 - v.n) ELSE NatStr(v.n))
    ELSE v.s

(***************************************************************************)
(* urllib.parse.unquote: every "%XY" with X, Y hexadecimal digits becomes  *)
(* the character of that code; any other "%" stays as it is.               *)
(***************************************************************************)
HexDigits ==
    <<"0", "1", "2", "3", "4", "5", "6", "7", "8", "9", "a", "b", "c", "d", "e", "f">>

UpperHex == <<"A", "B", "C", "D", "E", "F">>

IsHex(c) == (\E i \in 1..16 : HexDigits[i] = c) \/ (\E i \in 1..6 : UpperHex[i] = c)

HexVal(c) ==
    IF \E i \in 1..16 : HexDigits[i] = c
    THEN (CHOOSE i \in 1..16 : HexDigits[i] = c) - 1
    ELSE (CHOOSE i \in 1..6 : UpperHex[i] = c) + 9

UpperCase ==
    <<"A", "B", "C", "D", "E", "F", "G", "H", "I", "J", "K", "L", "M",
      "N", "O", "P", "Q", "R", "S", "T", "U", "V", "W", "X", "Y", "Z">>

LowerCase ==
    <<"a", "b", "c", "d", "e", "f", "g", "h", "i", "j", "k", "l", "m",
      "n", "o", "p", "q", "r", "s", "t", "u", "v", "w", "x", "y", "z">>

\* some other ASCII characters, and their codes
Punct == <<" ", "%", "&", "+", "-", ".", "/", ":", "=", "_", "~">>

PunctCode == <<32, 37, 38, 43, 45, 46, 47, 58, 61, 95, 126>>

\* the character of code n: a digit, a letter or a character of Punct is
\* written as itself, any other ASCII character as chr<n>; a lone byte above
\* 127 decodes (errors="replace") to U+FFFD
Chr(n) ==
    IF n >= 48 /\ n <= 57 THEN Digits[n - 47]
    ELSE IF n >= 65 /\ n <= 90 THEN UpperCase[n - 64]
    ELSE IF n >= 97 /\ n <= 122 THEN LowerCase[n - 96]
    ELSE IF \E i \in 1..Len(PunctCode) : PunctCode[i] = n
    THEN Punct[CHOOSE i \in 1..Len(PunctCode) : PunctCode[i] = n]
    ELSE IF n < 128 THEN "chr" \o ToString(n)
    ELSE "U+FFFD"

\* the code of an ASCII character
Ord(c) == CHOOSE n \in 0..127 : Chr(n) = c

RECURSIVE UnquoteSeq(_)
UnquoteSeq(s) ==
    IF Len(s) = 0 THEN <<>>
    ELSE IF s[1] = "%" /\ Len(s) >= 3 /\ IsHex(s[2]) /\ IsHex(s[3])
    THEN <<Chr(16 * HexVal(s[2]) + HexVal(s[3]))>> \o UnquoteSeq(SubSeq(s, 4, Len(s)))
    ELSE <<s[1]>> \o UnquoteSeq(Tail(s))

unquote(v) == Str(UnquoteSeq(v.s))

(***************************************************************************)
(* urllib.parse.urlencode (line 81): the entries as key=value joined by    *)
(* "&", each value written by str() and quoted by quote_plus.  A text is a *)
(* sequence of pieces; a key, a host, a user name, a password and a        *)
(* command name are one piece each, made of characters that need no        *)
(* quoting.                                                                *)
(***************************************************************************)
IsSafe(c) ==
    \/ \E i \in 1..26 : UpperCase[i] = c \/ LowerCase[i] = c
    \/ IsDigit(c)
    \/ c \in {"_", ".", "-", "~"}

HexChar(n) == IF n < 10 THEN Digits[n + 1] ELSE UpperHex[n - 9]

\* a quoting that leaves every character as it is
QuoteNothing(s) == s

RECURSIVE quote_plus(_)
quote_plus(s) ==
    IF Len(s) = 0 THEN <<>>
    ELSE (IF IsSafe(s[1]) THEN <<s[1]>>
          ELSE IF s[1] = " " THEN <<"+">>
          ELSE IF s[1] = "U+FFFD" THEN <<"%", "E", "F", "%", "B", "F", "%", "B", "D">>
          ELSE <<"%", HexChar(Ord(s[1]) \div 16), HexChar(Ord(s[1]) % 16)>>)
         \o quote_plus(Tail(s))

RECURSIVE urlencode(_)
urlencode(d) ==
    IF Len(d) = 0 THEN <<>>
    ELSE <<d[1].k, "=">> \o quote_plus(PyStr(d[1].v))
         \o (IF Len(d) > 1 THEN <<"&">> \o urlencode(Tail(d)) ELSE <<>>)

\* str.replace(old, new) on pieces: every piece that is old becomes new
Replace(s, old, new) == [i \in 1..Len(s) |-> IF s[i] = old THEN new ELSE s[i]]

(***************************************************************************)
(* collections.OrderedDict.                                                *)
(***************************************************************************)
Keys(d) == {d[i].k : i \in 1..Len(d)}

HasKey(d, k) == \E i \in 1..Len(d) : d[i].k = k

\* d[k] = v: an existing key keeps its position, a new key goes last
DictSet(d, k, v) ==
    IF HasKey(d, k)
    THEN [i \in 1..Len(d) |-> IF d[i].k = k THEN [k |-> k, v |-> v] ELSE d[i]]
    ELSE Append(d, [k |-> k, v |-> v])

(***************************************************************************)
(* Response bodies.  An XML document is the sequence of its elements in    *)
(* document order (the order of Element.iter()), each with its tag, its    *)
(* text (None or a str) and its depth in the tree; the root comes first at *)
(* depth 0.  Anything else (empty input, truncated XML, binary data) does  *)
(* not parse.                                                              *)
(***************************************************************************)
NoBody == [kind |-> "empty", elems |-> <<>>]

Malformed == [kind |-> "malformed", elems |-> <<>>]

Binary == [kind |-> "binary", elems |-> <<>>]

Xml(elems) == [kind |-> "xml", elems |-> elems]

Elem(tag, text, depth) == [tag |-> tag, text |-> text, depth |-> depth]

\* ET.fromstring(raw_string) returns a root (does not raise ParseError)
Parses(body) == body.kind = "xml"

\* element i has no child
IsLeaf(elems, i) == i = Len(elems) \/ elems[i + 1].depth <= elems[i].depth

(***************************************************************************)
(* Results of send_command.                                                *)
(***************************************************************************)
ResNone == [kind |-> "none", map |-> <<>>, body |-> NoBody]

ResMap(m) == [kind |-> "map", map |-> m, body |-> NoBody]

ResBytes(b) == [kind |-> "bytes", map |-> <<>>, body |-> b]

\* send_command returned the pair (code, res)
Returned(code, res) == [st |-> "ret", code |-> code, res |-> res]

\* send_command raised (TypeError or ValueError of int())
Raised == [st |-> "raise", code |-> 0, res |-> ResNone]

(***************************************************************************)
(* send_command, lines 90-119.  The transport outcome t is what            *)
(* urlopen(cmdurl, timeout=5).read() does: it raises (connection refused,  *)
(* TLS failure, timeout) or it delivers a body.                            *)
(***************************************************************************)
TransportFailed == [ok |-> FALSE, body |-> NoBody]

Delivered(body) == [ok |-> TRUE, body |-> body]

\* a loop that skips no element
SkipsNoTag(tag) == FALSE

\* line 112: the elif of the loop skips the element
SkipsTag(tag) == tag = "CGI_Result"

\* a loop that stores the text as it is, not unquoted
FieldValueRaw(text) == text

\* lines 113-115: the value stored for an element
FieldValue(text) == IF text # None THEN unquote(text) ELSE None

RECURSIVE DecodeLoop(_, _, _, _)
\* lines 106-119: the loop over root.iter(), from element i on, with the
\* code and the params built so far
DecodeLoop(elems, i, code, params) ==
    IF i > Len(elems) THEN Returned(code, ResMap(params))
    ELSE IF elems[i].tag = "result"
    THEN IF PyIntOk(elems[i].text)
         THEN DecodeLoop(elems, i + 1, PyInt(elems[i].text), params)
         ELSE Raised
    ELSE IF ~SkipsTag(elems[i].tag)
    THEN DecodeLoop(elems, i + 1, code,
                    DictSet(params, elems[i].tag, FieldValue(elems[i].text)))
    ELSE DecodeLoop(elems, i + 1, code, params)

\* an except clause that returns the mapping instead of None
OnExceptionEmptyMap == Returned(ERROR_FOSCAM_UNAVAILABLE, ResMap(<<>>))

\* lines 102-105: the bare except around the transport and the parse
OnException == Returned(ERROR_FOSCAM_UNAVAILABLE, ResNone)

\* a raw mode that hands over only bytes that parse
RawReturnParsed(body) == IF Parses(body) THEN Returned(FOSCAM_SUCCESS, ResBytes(body)) ELSE OnException

\* lines 97-100
RawReturn(body) == Returned(FOSCAM_SUCCESS, ResBytes(body))

\* lines 90-119: what send_command does with the transport outcome t
SendCommand(raw, t) ==
    IF ~t.ok THEN OnException
    ELSE IF raw THEN RawReturn(t.body)
    ELSE IF ~Parses(t.body) THEN OnException
    ELSE DecodeLoop(t.body.elems, 1, ERROR_FOSCAM_UNKNOWN, <<>>)

\* lines 21-26: import ssl succeeded
ssl_enabled == TRUE

\* lines 79-82: params is the dict, a result [kind, map, body], or None
ParamStr(params) ==
    IF params.kind = "map" /\ Len(params.map) > 0
    THEN (IF urlencode(params.map) # <<>> THEN <<"&">> \o urlencode(params.map) ELSE <<>>)
    ELSE <<>>

\* lines 70-73 and 83-85: the URL send_command requests on camera c
CmdUrl(c, cmd, params) ==
    LET cmdurl == <<"http:", "//", c.host, ":">> \o PyStr(c.port)
                  \o <<"/cgi-bin/CGIProxy.fcgi?", "usr=", c.usr, "&", "pwd=", c.pwd,
                       "&", "cmd=", cmd>>
                  \o ParamStr(params)
    IN  IF c.ssl /\ ssl_enabled THEN Replace(cmdurl, "http:", "https:") ELSE cmdurl

(***************************************************************************)
(* FoscamCamera.__init__, lines 53-68.  The ssl argument is "None", "True" *)
(* or "False".                                                             *)
(***************************************************************************)
\* a constructor that turns TLS on for port 443 whatever the argument
SslDefaultIgnoresArg(port, ssl) == ssl_enabled /\ port = PyNum(443)

\* lines 63-68: the ssl flag after construction
SslDefault(port, ssl) ==
    IF ssl_enabled /\ port = PyNum(443) /\ ssl = "None" THEN TRUE
    ELSE IF ssl = "None" THEN FALSE
    ELSE ssl = "True"

\* lines 53-68; no argument is checked, so the constructor raises for none
Construct(host, port, usr, pwd, daemon, ssl, verbose) ==
    [host |-> host, port |-> port, usr |-> usr, pwd |-> pwd, daemon |-> daemon,
     verbose |-> verbose, ssl |-> SslDefault(port, ssl)]

\* the arguments of a call of the constructor
CtorArgs(host, port, usr, pwd, daemon, ssl, verbose) ==
    [host |-> host, port |-> port, usr |-> usr, pwd |-> pwd, daemon |-> daemon,
     ssl |-> ssl, verbose |-> verbose]

ConstructFrom(a) == Construct(a.host, a.port, a.usr, a.pwd, a.daemon, a.ssl, a.verbose)

\* lines 70-73 and 94-96: urlopen can reach a camera at host:port, that is
\* the host is not empty and str(port) is a port number; otherwise it raises
\* (URLError, InvalidURL, OverflowError)
Routable(c) ==
    /\ c.host # ""
    /\ c.port.t \in {"int", "str"}
    /\ AllDigits(PyStr(c.port))
    /\ NatVal(PyStr(c.port)) <= 65535

(***************************************************************************)
(* The state.                                                              *)
(*   args     the arguments cam was constructed with                       *)
(*   cam      the FoscamCamera object                                      *)
(*   calls    the execute_command calls, by number, each with the state of *)
(*            its execute_with_callbacks; a caller that starts an          *)
(*            operation no longer holds its calls that have ended          *)
(*   ncalls   the number of execute_command calls made so far              *)
(*   callers  the threads of the application using cam                     *)
(*   dev      the camera's motion detect config                            *)
(*   world    which bodies the transport may deliver: those of a camera    *)
(*            ("camera"), any document ("any"), or those of a camera that  *)
(*            accepts every command ("tasks")                              *)
(***************************************************************************)
VARIABLES args, cam, calls, ncalls, callers, dev, world

vars == <<args, cam, calls, ncalls, callers, dev, world>>

\* the outcome of a send_command that has not ended
Pending == [st |-> "pending", code |-> 0, res |-> ResNone]

\* what a caller got from its last operation
RetUnset == [t |-> "unset", code |-> 0, res |-> ResNone]

RetNone == [t |-> "none", code |-> 0, res |-> ResNone]

RetInt(n) == [t |-> "int", code |-> n, res |-> ResNone]

RetPair(out) == [t |-> "pair", code |-> out.code, res |-> out.res]

IdleCaller == [pc |-> "idle", op |-> "none", enabled |-> 0, call |-> 0, get |-> 0, ret |-> RetUnset]

\* lines 1019-1029 and 1057-1067: the commands of the two composites
GetCmd(op) == IF op = "smd" THEN "getMotionDetectConfig" ELSE "getMotionDetectConfig1"

SetCmd(op) == IF op = "smd" THEN "setMotionDetectConfig" ELSE "setMotionDetectConfig1"

IsGet(cmd) == cmd \in {"getMotionDetectConfig", "getMotionDetectConfig1"}

IsSet(cmd) == cmd \in {"setMotionDetectConfig", "setMotionDetectConfig1"}

\* lines 132-139: execute_command on a daemon camera runs the command on a
\* new thread
Detached(c) == c.daemon

\* lines 121-141: a new execute_command call of caller c; on a daemon camera
\* its thread is started
NewCall(c, cmd, params, cb, raw) ==
    [caller |-> c, cmd |-> cmd, params |-> params, cb |-> cb, raw |-> raw,
     detached |-> Detached(cam), st |-> "Idle", t |-> TransportFailed, out |-> Pending,
     cbs |-> 0, cbarg |-> Pending, cbBy |-> "none", returned |-> FALSE,
     ended |-> FALSE, nreq |-> 0, url |-> <<>>]

(***************************************************************************)
(* The camera behind the transport.                                        *)
(***************************************************************************)
ResultOk == <<Elem("result", Str(<<"0">>), 1)>>

\* the result element of a reply: absent, a device code, a text that is no
\* integer, or no text at all
ResultElems ==
    { <<>>, ResultOk, <<Elem("result", Str(<<"-", "2">>), 1)>>,
      <<Elem("result", Str(<<"x">>), 1)>>, <<Elem("result", None, 1)>> }

CameraXml(re, fields) ==
    Xml(<<Elem("CGI_Result", None, 0)>> \o re
        \o [i \in 1..Len(fields) |-> Elem(fields[i].k, fields[i].v, 1)])

\* the config the camera holds after it accepted the parameters of a set
DeviceStore(params) ==
    [i \in 1..Len(params) |->
        [k |-> params[i].k,
         v |-> IF PyStr(params[i].v) = <<>> THEN None ELSE Str(PyStr(params[i].v))]]

DevConfigs ==
    { << [k |-> "linkage", v |-> Str(<<"%", "4", "1", "%", "2", "6", " ">>)],
         [k |-> "isEnable", v |-> Str(<<"0">>)],
         [k |-> "sensitivity", v |-> Str(<<"2">>)] >>,
      << [k |-> "linkage", v |-> None], [k |-> "snapInterval", v |-> Str(<<"3">>)] >> }

(***************************************************************************)
(* Arbitrary responses: every document of at most MaxElems elements over   *)
(* these tags and texts, and the bodies that are no XML.                   *)
(***************************************************************************)
Tags == {"CGI_Result", "result", "isEnable", "linkage"}

ResultTexts == {None, Str(<<"0">>), Str(<<"-", "2">>), Str(<<"x">>)}

FieldTexts == {None, Str(<<"a", "%", "4", "1">>), Str(<<"%", "4">>)}

TextsOf(tag) == IF tag = "result" THEN ResultTexts ELSE FieldTexts

\* the tag and text an element may have
Labels == UNION {{[tag |-> tag, text |-> text] : text \in TextsOf(tag)} : tag \in Tags}

RECURSIVE Shapes(_)
\* the depths of the elements of a document of n elements, in document
\* order: the root at depth 0, then each element a child of an open element
Shapes(n) ==
    IF n = 1 THEN {<<0>>}
    ELSE UNION {{Append(sh, d) : d \in 1..(sh[n - 1] + 1)} : sh \in Shapes(n - 1)}

Doc(sh, lab) == Xml([i \in 1..Len(sh) |-> Elem(lab[i].tag, lab[i].text, sh[i])])

NonXml == {NoBody, Malformed, Binary}

\* the codes a camera reports in its result element: 0 and -1 .. -7
DeviceCodes == ERROR_FOSCAM_UNKNOWN..FOSCAM_SUCCESS

\* the reply of a camera that reports the code in an element of this tag,
\* next to a field
CodeReply(tag, code) ==
    Xml(<<Elem("CGI_Result", None, 0), Elem(tag, Str(PyStr(PyNum(code))), 1),
          Elem("isEnable", Str(<<"1">>), 1)>>)

\* the bodies a camera answers call k with: its XML reply, or something that
\* is no XML; a successful get carries the config
CameraBodies(k) ==
    IF world = "tasks" THEN {IF calls[k].raw THEN Binary ELSE CameraXml(ResultOk, <<>>)}
    ELSE IF calls[k].raw THEN {Binary, NoBody}
    ELSE {Malformed} \cup
         {CameraXml(re, IF IsGet(calls[k].cmd) /\ re = ResultOk THEN dev ELSE <<>>) :
              re \in ResultElems}

\* a set command the camera answered with result 0 replaced its config
DevAfter(k, body) ==
    IF /\ IsSet(calls[k].cmd)
       /\ calls[k].params.kind = "map"
       /\ body = CameraXml(ResultOk, <<>>)
    THEN DeviceStore(calls[k].params.map)
    ELSE dev

(***************************************************************************)
(* The operations of a caller.                                             *)
(***************************************************************************)
\* the execute_command calls an application makes itself: a get
\* (get_motion_detect_config, lines 1019-1023) and a raw snapshot (line 1233)
DirectCalls ==
    { [cmd |-> "getMotionDetectConfig", params |-> ResNone, raw |-> FALSE],
      [cmd |-> "snapPicture2", params |-> ResMap(<<>>), raw |-> TRUE] }

\* the threads of detached calls that have not ended
RunningTasks == {k \in DOMAIN calls : calls[k].detached /\ ~calls[k].ended}

\* the threads of one behaviour: where the order of detached calls is
\* looked at, one more
TaskBudget == IF world = "tasks" THEN MaxTasks + 1 ELSE MaxTasks

\* an engine that lets one caller at a time use the camera
CanStartAlone(c) == \A c2 \in DOMAIN callers : callers[c2].pc \in {"idle", "done"}

\* a caller is between two operations (no lock is taken: lines 121-141,
\* 1031-1040); on a daemon camera the model bounds the running threads
CanStart(c) ==
    /\ callers[c].pc \in {"idle", "done"}
    /\ Detached(cam) => Cardinality(RunningTasks) < TaskBudget

\* the calls still held when caller c starts an operation
Live(c) == {k \in DOMAIN calls : ~(calls[k].caller = c /\ calls[k].ended)}

\* calls with call number ncalls + 1 added, and those of ks kept
WithCall(ks, new) == [k \in ks \cup {ncalls + 1} |-> IF k = ncalls + 1 THEN new ELSE calls[k]]

\* the calls of one behaviour: where any document may arrive, one call
\* without callback decodes it; where the order of detached calls is looked
\* at, every call has a callback
CallBudget == IF world = "any" THEN 1 ELSE MaxCalls

CallbackChoices ==
    IF world = "any" THEN {FALSE} ELSE IF world = "tasks" THEN {TRUE} ELSE BOOLEAN

\* the set commands that composites under way have yet to call
Reserved == Cardinality({c \in DOMAIN callers : callers[c].pc = "get"})

\* the mapping get_motion_detect_config returns for the config d
ConfigOf(d) == [i \in 1..Len(d) |-> [k |-> d[i].k, v |-> FieldValue(d[i].v)]]

\* a caller calls set_motion_detect_config(params), lines 1025-1029, with
\* the config of the camera in which it changed the sensitivity
StartSet(c) ==
    /\ CanStart(c)
    /\ ncalls + Reserved < MaxCalls
    /\ calls' = WithCall(Live(c),
                         NewCall(c, "setMotionDetectConfig",
                                 ResMap(DictSet(ConfigOf(dev), "sensitivity", PyNum(5))),
                                 FALSE, FALSE))
    /\ ncalls' = ncalls + 1
    /\ callers' = [callers EXCEPT ![c] =
           [pc |-> "exec", op |-> "exec", enabled |-> 0, call |-> ncalls + 1,
            get |-> 0, ret |-> RetUnset]]
    /\ UNCHANGED <<args, cam, dev, world>>

\* a caller calls execute_command(cmd, params, callback, raw), lines 121-139
StartExec(c) ==
    /\ CanStart(c)
    /\ ncalls < CallBudget
    /\ \E d \in DirectCalls, cb \in CallbackChoices :
        /\ calls' = WithCall(Live(c), NewCall(c, d.cmd, d.params, cb, d.raw))
        /\ ncalls' = ncalls + 1
        /\ callers' = [callers EXCEPT ![c] =
               [pc |-> "exec", op |-> "exec", enabled |-> 0, call |-> ncalls + 1,
                get |-> 0, ret |-> RetUnset]]
        /\ UNCHANGED <<args, cam, dev, world>>

\* a caller calls set_motion_detection(enabled) or set_motion_detection1(enabled),
\* which calls its get (lines 1035, 1073)
StartComposite(c) ==
    /\ CanStart(c)
    /\ ncalls + Reserved + 2 <= MaxCalls
    /\ \E op \in {"smd", "smd1"}, enabled \in {0, 1} :
        /\ calls' = WithCall(Live(c), NewCall(c, GetCmd(op), ResNone, FALSE, FALSE))
        /\ ncalls' = ncalls + 1
        /\ callers' = [callers EXCEPT ![c] =
               [pc |-> "get", op |-> op, enabled |-> enabled, call |-> ncalls + 1,
                get |-> ncalls + 1, ret |-> RetUnset]]
        /\ UNCHANGED <<args, cam, dev, world>>

(***************************************************************************)
(* The steps of execute_with_callbacks (lines 126-130), on the caller's    *)
(* thread or on the thread of a detached call.                             *)
(***************************************************************************)
\* lines 79-96: the URL is built and urlopen issues the request
Send(k) ==
    /\ calls[k].st = "Idle"
    /\ calls' = [calls EXCEPT ![k] =
           [@ EXCEPT !.st = "Sending", !.nreq = @ + 1,
                     !.url = CmdUrl(cam, calls[k].cmd, calls[k].params)]]
    /\ UNCHANGED <<args, cam, ncalls, callers, dev, world>>

\* lines 94-96 and 102-105: urlopen or read raises (no connection, TLS
\* failure, the 5 s timeout)
Fail(k) ==
    /\ calls[k].st = "Sending"
    /\ calls' = [calls EXCEPT ![k] =
           [@ EXCEPT !.st = "Completed", !.t = TransportFailed,
                     !.out = SendCommand(calls[k].raw, TransportFailed)]]
    /\ UNCHANGED <<args, cam, ncalls, callers, dev, world>>

\* lines 94-96: read() delivers a body
Deliver(k, body) ==
    calls' = [calls EXCEPT ![k] = [@ EXCEPT !.st = "Decoding", !.t = Delivered(body)]]

\* the body is a camera's answer
Respond(k) ==
    /\ calls[k].st = "Sending"
    /\ world \in {"camera", "tasks"}
    /\ Routable(cam)
    /\ \E body \in CameraBodies(k) :
        /\ Deliver(k, body)
        /\ dev' = DevAfter(k, body)
    /\ UNCHANGED <<args, cam, ncalls, callers, world>>

\* the body is anything: no XML, any document of at most MaxElems
\* elements, or a reply carrying a device code
RespondAny(k) ==
    /\ calls[k].st = "Sending"
    /\ world = "any"
    /\ Routable(cam)
    /\ \/ \E body \in NonXml : Deliver(k, body)
       \/ \E n \in 1..MaxElems : \E sh \in Shapes(n) : \E lab \in [1..n -> Labels] :
              Deliver(k, Doc(sh, lab))
       \/ \E tag \in {"result", "Result"}, code \in DeviceCodes :
              Deliver(k, CodeReply(tag, code))
    /\ UNCHANGED <<args, cam, ncalls, callers, dev, world>>

\* a send_command that decodes the response into the mapping it was given
ParamsDecodedInto(params, out) == IF out.res.kind = "map" THEN out.res ELSE params

\* line 107: params = OrderedDict() binds the local name to a new mapping;
\* the mapping the caller passed is the one it was
ParamsAfter(params, out) == params

\* lines 97-119: send_command returns its pair, or int() raises; the
\* exception of a synchronous call goes up through execute_command and the
\* composite to the caller, that of a detached call ends its thread
Decode(k) ==
    LET out == SendCommand(calls[k].raw, calls[k].t) IN
    /\ calls[k].st = "Decoding"
    /\ calls' = [calls EXCEPT ![k] =
           IF out.st = "ret"
           THEN [@ EXCEPT !.st = "Completed", !.out = out,
                          !.params = ParamsAfter(calls[k].params, out)]
           ELSE [@ EXCEPT !.st = "Faulted", !.out = out, !.ended = TRUE]]
    /\ callers' = IF out.st = "raise" /\ ~calls[k].detached
                  THEN [callers EXCEPT ![calls[k].caller].pc = "faulted"]
                  ELSE callers
    /\ UNCHANGED <<args, cam, ncalls, dev, world>>

\* an execute_command that invokes the callback itself
CallbackOnCaller(call) == "caller"

\* lines 128-129: the thread the callback runs on
CallbackThread(call) == IF call.detached THEN "task" ELSE "caller"

\* an engine that keeps the pair of the latest send_command in one place
\* shared by all calls
CallbackArgShared(k) ==
    calls[CHOOSE j \in DOMAIN calls :
              /\ calls[j].st = "Completed"
              /\ \A i \in DOMAIN calls : calls[i].st = "Completed" => i <= j].out

\* lines 127-129: code and params are locals of execute_with_callbacks
CallbackArg(k) == calls[k].out

\* lines 128-129
Callback(k) ==
    /\ calls[k].st = "Completed"
    /\ calls[k].cb
    /\ calls[k].cbs = 0
    /\ ~calls[k].ended
    /\ calls' = [calls EXCEPT ![k] =
           [@ EXCEPT !.cbs = @ + 1, !.cbarg = CallbackArg(k), !.cbBy = CallbackThread(calls[k])]]
    /\ UNCHANGED <<args, cam, ncalls, callers, dev, world>>

\* an execute_with_callbacks that returns without invoking the callback
AtReturnNoCallback(call) == call.st = "Completed" /\ ~call.ended

\* line 130: execute_with_callbacks is at its return
AtReturn(call) ==
    /\ call.st = "Completed"
    /\ ~call.ended
    /\ call.cb => call.cbs = 1

\* line 130 on the thread of a detached call: the pair goes nowhere
TaskEnd(k) ==
    /\ calls[k].detached
    /\ AtReturn(calls[k])
    /\ calls' = [calls EXCEPT ![k] = [@ EXCEPT !.ended = TRUE]]
    /\ UNCHANGED <<args, cam, ncalls, callers, dev, world>>

(***************************************************************************)
(* The return of execute_command to its caller, and what the caller does   *)
(* with it.                                                                *)
(***************************************************************************)
\* a composite that gives up only when the camera is unavailable
GetAbortsUnavailableOnly(result) == result = ERROR_FOSCAM_UNAVAILABLE

\* lines 1036, 1074
GetAborts(result) == result # FOSCAM_SUCCESS

\* a composite that sends the changed field alone
MutatePatchOnly(current_config, enabled) == <<[k |-> "isEnable", v |-> PyNum(enabled)]>>

\* lines 1038, 1076
Mutate(current_config, enabled) == DictSet(current_config, "isEnable", PyNum(enabled))

\* lines 1039-1040 and 1077: what the composite returns after its set
CompositeReturn(op, setout) == IF op = "smd" THEN RetInt(FOSCAM_SUCCESS) ELSE RetNone

\* lines 139-141 on a daemon camera: after t.start() execute_command returns
\* None.  A composite unpacks it (lines 1035, 1073), which raises TypeError.
ExecReturnDetached(c) ==
    LET k == callers[c].call IN
    /\ callers[c].pc \in {"exec", "get", "set"}
    /\ calls[k].detached
    /\ ~calls[k].returned
    /\ calls' = [calls EXCEPT ![k] = [@ EXCEPT !.returned = TRUE]]
    /\ callers' = [callers EXCEPT ![c] =
           IF callers[c].pc = "exec" THEN [@ EXCEPT !.pc = "done", !.ret = RetNone]
           ELSE [@ EXCEPT !.pc = "faulted"]]
    /\ UNCHANGED <<args, cam, ncalls, dev, world>>

\* line 141: execute_command returns the pair of execute_with_callbacks to
\* the application
ExecReturnSync(c) ==
    LET k == callers[c].call IN
    /\ callers[c].pc = "exec"
    /\ ~calls[k].detached
    /\ AtReturn(calls[k])
    /\ calls' = [calls EXCEPT ![k] = [@ EXCEPT !.ended = TRUE, !.returned = TRUE]]
    /\ callers' = [callers EXCEPT ![c] = [@ EXCEPT !.pc = "done", !.ret = RetPair(calls[k].out)]]
    /\ UNCHANGED <<args, cam, ncalls, dev, world>>

\* lines 1035-1039, 1073-1077: the get returned; the composite returns its
\* code, or mutates the config and calls the set
GetReturn(c) ==
    LET k == callers[c].call
        out == calls[k].out IN
    /\ callers[c].pc = "get"
    /\ ~calls[k].detached
    /\ AtReturn(calls[k])
    /\ IF GetAborts(out.code)
       THEN /\ calls' = [calls EXCEPT ![k] = [@ EXCEPT !.ended = TRUE, !.returned = TRUE]]
            /\ callers' = [callers EXCEPT ![c] =
                   [@ EXCEPT !.pc = "done", !.ret = RetInt(out.code)]]
            /\ ncalls' = ncalls
       ELSE /\ calls' = [WithCall(DOMAIN calls,
                                  NewCall(c, SetCmd(callers[c].op),
                                          ResMap(Mutate(out.res.map, callers[c].enabled)),
                                          FALSE, FALSE))
                            EXCEPT ![k] = [@ EXCEPT !.ended = TRUE, !.returned = TRUE]]
            /\ callers' = [callers EXCEPT ![c] = [@ EXCEPT !.pc = "set", !.call = ncalls + 1]]
            /\ ncalls' = ncalls + 1
    /\ UNCHANGED <<args, cam, dev, world>>

\* lines 1039-1040, 1077: the set returned; the composite returns
SetReturn(c) ==
    LET k == callers[c].call IN
    /\ callers[c].pc = "set"
    /\ ~calls[k].detached
    /\ AtReturn(calls[k])
    /\ calls' = [calls EXCEPT ![k] = [@ EXCEPT !.ended = TRUE, !.returned = TRUE]]
    /\ callers' = [callers EXCEPT ![c] =
           [@ EXCEPT !.pc = "done", !.ret = CompositeReturn(callers[c].op, calls[k].out)]]
    /\ UNCHANGED <<args, cam, ncalls, dev, world>>

(***************************************************************************)
(* Spec: an application thread using one camera object.                    *)
(***************************************************************************)
Init ==
    /\ \E daemon \in BOOLEAN :
           args = CtorArgs("cam", PyNum(88), "usr", "pwd", daemon, "None", FALSE)
    /\ cam = ConstructFrom(args)
    /\ calls = <<>>
    /\ ncalls = 0
    /\ callers = [c \in {"c1"} |-> IdleCaller]
    /\ dev \in DevConfigs
    /\ world = "camera"

Next ==
    \/ \E c \in DOMAIN callers : StartExec(c)
    \/ \E c \in DOMAIN callers : StartComposite(c)
    \/ \E k \in DOMAIN calls : Send(k)
    \/ \E k \in DOMAIN calls : Fail(k)
    \/ \E k \in DOMAIN calls : Respond(k)
    \/ \E k \in DOMAIN calls : Decode(k)
    \/ \E k \in DOMAIN calls : Callback(k)
    \/ \E k \in DOMAIN calls : TaskEnd(k)
    \/ \E c \in DOMAIN callers : ExecReturnDetached(c)
    \/ \E c \in DOMAIN callers : ExecReturnSync(c)
    \/ \E c \in DOMAIN callers : GetReturn(c)
    \/ \E c \in DOMAIN callers : SetReturn(c)

Spec == Init /\ [][Next]_vars

(***************************************************************************)
(* SpecDecode: one synchronous call, answered with any body.               *)
(***************************************************************************)
InitDecode ==
    /\ args = CtorArgs("cam", PyNum(88), "usr", "pwd", FALSE, "None", FALSE)
    /\ cam = ConstructFrom(args)
    /\ calls = <<>>
    /\ ncalls = 0
    /\ callers = [c \in {"c1"} |-> IdleCaller]
    /\ dev = <<>>
    /\ world = "any"

NextDecode ==
    \/ \E c \in DOMAIN callers : StartExec(c)
    \/ \E k \in DOMAIN calls : Send(k)
    \/ \E k \in DOMAIN calls : Fail(k)
    \/ \E k \in DOMAIN calls : RespondAny(k)
    \/ \E k \in DOMAIN calls : Decode(k)
    \/ \E c \in DOMAIN callers : ExecReturnSync(c)

SpecDecode == InitDecode /\ [][NextDecode]_vars

(***************************************************************************)
(* SpecConstruct: a synchronous camera object constructed with any host,   *)
(* port and ssl argument, then used.                                       *)
(***************************************************************************)
Hosts == {"cam", ""}

\* 443, another port, a number that is no port, and two strs
Ports == {PyNum(443), PyNum(88), PyNum(70000), Str(<<"4", "4", "3">>), Str(<<"a">>)}

SslArgs == {"None", "True", "False"}

InitConstruct ==
    /\ \E host \in Hosts, port \in Ports, ssl \in SslArgs :
           args = CtorArgs(host, port, "usr", "pwd", FALSE, ssl, FALSE)
    /\ cam = ConstructFrom(args)
    /\ calls = <<>>
    /\ ncalls = 0
    /\ callers = [c \in {"c1"} |-> IdleCaller]
    /\ dev \in DevConfigs
    /\ world = "camera"

NextConstruct ==
    \/ \E c \in DOMAIN callers : StartExec(c)
    \/ \E k \in DOMAIN calls : Send(k)
    \/ \E k \in DOMAIN calls : Fail(k)
    \/ \E k \in DOMAIN calls : Respond(k)
    \/ \E k \in DOMAIN calls : Decode(k)
    \/ \E k \in DOMAIN calls : Callback(k)
    \/ \E c \in DOMAIN callers : ExecReturnSync(c)
    \/ \E c \in DOMAIN callers : StartComposite(c)
    \/ \E c \in DOMAIN callers : GetReturn(c)
    \/ \E c \in DOMAIN callers : SetReturn(c)

SpecConstruct == InitConstruct /\ [][NextConstruct]_vars

(***************************************************************************)
(* SpecRace: two application threads using one synchronous camera object   *)
(* for composites and for set_motion_detect_config.                        *)
(***************************************************************************)
InitRace ==
    /\ args = CtorArgs("cam", PyNum(88), "usr", "pwd", FALSE, "None", FALSE)
    /\ cam = ConstructFrom(args)
    /\ calls = <<>>
    /\ ncalls = 0
    /\ callers = [c \in {"c1", "c2"} |-> IdleCaller]
    /\ dev \in {d \in DevConfigs : HasKey(d, "sensitivity")}
    /\ world = "camera"

NextRace ==
    \/ \E c \in DOMAIN callers : StartComposite(c)
    \/ \E c \in DOMAIN callers : StartSet(c)
    \/ \E k \in DOMAIN calls : Send(k)
    \/ \E k \in DOMAIN calls : Fail(k)
    \/ \E k \in DOMAIN calls : Respond(k)
    \/ \E k \in DOMAIN calls : Decode(k)
    \/ \E c \in DOMAIN callers : ExecReturnSync(c)
    \/ \E c \in DOMAIN callers : GetReturn(c)
    \/ \E c \in DOMAIN callers : SetReturn(c)

SpecRace == InitRace /\ [][NextRace]_vars

(***************************************************************************)
(* SpecTasks: one application thread making detached calls with callbacks  *)
(* on a daemon camera object, several of them running at the same time.    *)
(***************************************************************************)
InitTasks ==
    /\ args = CtorArgs("cam", PyNum(88), "usr", "pwd", TRUE, "None", FALSE)
    /\ cam = ConstructFrom(args)
    /\ calls = <<>>
    /\ ncalls = 0
    /\ callers = [c \in {"c1"} |-> IdleCaller]
    /\ dev \in DevConfigs
    /\ world = "tasks"

NextTasks ==
    \/ \E c \in DOMAIN callers : StartExec(c)
    \/ \E k \in DOMAIN calls : Send(k)
    \/ \E k \in DOMAIN calls : Fail(k)
    \/ \E k \in DOMAIN calls : Respond(k)
    \/ \E k \in DOMAIN calls : Decode(k)
    \/ \E k \in DOMAIN calls : Callback(k)
    \/ \E k \in DOMAIN calls : TaskEnd(k)
    \/ \E c \in DOMAIN callers : ExecReturnDetached(c)

SpecTasks == InitTasks /\ [][NextTasks]_vars

(***************************************************************************)
(* Properties.                                                             *)
(***************************************************************************)
\* the calls whose send_command has ended
Ended(k) == calls[k].st \in {"Completed", "Faulted"}

\* the transport or the XML parse of call k failed
TransportOrParseFailure(k) ==
    \/ ~calls[k].t.ok
    \/ ~calls[k].raw /\ ~Parses(calls[k].t.body)

\* C1: send_command never raises, whatever the body: every call that ends,
\* ends Completed with a returned pair, and a transport or decode failure
\* gives a negative code.
C1_NeverRaises ==
    \A k \in DOMAIN calls :
        Ended(k) =>
            /\ calls[k].st = "Completed"
            /\ calls[k].out.st = "ret"
            /\ TransportOrParseFailure(k) => calls[k].out.code < 0

\* the composite of caller c has called its set
InSetPhase(c) ==
    /\ callers[c].op \in {"smd", "smd1"}
    /\ callers[c].get # 0
    /\ callers[c].call # callers[c].get

\* C2: a composite whose get succeeded returns the code of its set command.
C2_ReturnsSetCode ==
    \A c \in DOMAIN callers :
        InSetPhase(c) /\ callers[c].pc = "done" =>
            callers[c].ret = RetInt(calls[callers[c].call].out.code)

\* C3: a composite runs its get synchronously on every camera, daemon or
\* not: it goes on (to the set, to its return) only once the get is
\* Completed and has returned its pair, and it does not end in a fault.
C3_GetIsSynchronous ==
    \A c \in DOMAIN callers :
        callers[c].op \in {"smd", "smd1"} =>
            /\ callers[c].pc # "faulted"
            /\ callers[c].pc \in {"set", "done"} =>
                   /\ calls[callers[c].get].st = "Completed"
                   /\ calls[callers[c].get].returned

\* the get of the composite of caller c returned a code other than Success
GetFailed(c) ==
    /\ callers[c].op \in {"smd", "smd1"}
    /\ callers[c].get # 0
    /\ calls[callers[c].get].returned
    /\ calls[callers[c].get].out.st = "ret"
    /\ ~calls[callers[c].get].detached
    /\ calls[callers[c].get].out.code # FOSCAM_SUCCESS

\* C4: when the get of a composite returns a code other than Success, the
\* composite returns that code, it has issued one request, and no set
\* command exists.
C4_GetFailureAborts ==
    \A c \in DOMAIN callers :
        GetFailed(c) =>
            /\ callers[c].pc = "done"
            /\ callers[c].ret = RetInt(calls[callers[c].get].out.code)
            /\ callers[c].call = callers[c].get
            /\ calls[callers[c].get].nreq = 1
            /\ \A k \in DOMAIN calls :
                   calls[k].caller = c => ~IsSet(calls[k].cmd) /\ (k # callers[c].get => calls[k].nreq = 0)

C4_Witness ==
    \E c \in DOMAIN callers :
        /\ GetFailed(c)
        /\ callers[c].ret = RetInt(ERROR_FOSCAM_AUTH)

\* C5: the parameters of the set of a composite are the mapping its get
\* returned with isEnable set to the new value: every other key keeps its
\* value and its position, and no key is added or removed but isEnable,
\* which goes last when the get had none.
C5_OnlyIsEnableChanges ==
    \A c \in DOMAIN callers :
        InSetPhase(c) =>
            LET old == calls[callers[c].get].out.res.map
                new == calls[callers[c].call].params.map
                had == \E i \in 1..Len(old) : old[i].k = "isEnable"
            IN  /\ calls[callers[c].call].params.kind = "map"
                /\ Len(new) = IF had THEN Len(old) ELSE Len(old) + 1
                /\ \A i \in 1..Len(old) :
                       /\ new[i].k = old[i].k
                       /\ old[i].k # "isEnable" => new[i].v = old[i].v
                /\ \A i \in 1..Len(new) :
                       new[i].k = "isEnable" => new[i].v = PyNum(callers[c].enabled)
                /\ ~had => new[Len(new)].k = "isEnable"

\* the set was sent with a mapping in which isEnable was replaced in place,
\* between two other keys
C5_Witness ==
    \E c \in DOMAIN callers :
        /\ InSetPhase(c)
        /\ calls[callers[c].call].nreq = 1
        /\ Len(calls[callers[c].call].params.map) = 3
        /\ calls[callers[c].call].params.map[2] = [k |-> "isEnable", v |-> PyNum(1)]
        /\ calls[callers[c].get].out.res.map[2] = [k |-> "isEnable", v |-> Str(<<"0">>)]

\* C6: the pair of send_command has one of three shapes: (-8, None) after a
\* transport or parse failure, (0, the bytes received) in raw mode, and
\* (code, mapping) otherwise; so a code 0 without raw comes with a mapping.
C6_ResultShapes ==
    \A k \in DOMAIN calls :
        calls[k].st = "Completed" =>
            LET out == calls[k].out IN
            /\ out.st = "ret"
            /\ TransportOrParseFailure(k) =>
                   /\ out.code = ERROR_FOSCAM_UNAVAILABLE
                   /\ out.res = ResNone
            /\ calls[k].raw /\ calls[k].t.ok =>
                   /\ out.code = FOSCAM_SUCCESS
                   /\ out.res = ResBytes(calls[k].t.body)
            /\ ~calls[k].raw /\ ~TransportOrParseFailure(k) => out.res.kind = "map"
            /\ ~calls[k].raw /\ out.code = FOSCAM_SUCCESS => out.res.kind = "map"
            /\ out.res.kind = "bytes" => calls[k].raw

\* a body that is no XML was decoded without raw, to (-8, None)
C6_Witness ==
    \E k \in DOMAIN calls :
        /\ calls[k].st = "Completed"
        /\ ~calls[k].raw
        /\ calls[k].t = Delivered(Malformed)
        /\ calls[k].out = Returned(ERROR_FOSCAM_UNAVAILABLE, ResNone)

\* C7 as claimed: on a daemon camera the callback of a call is never invoked
\* before execute_command has returned to the caller.
C7_ReturnsBeforeCallback ==
    \A k \in DOMAIN calls :
        calls[k].detached /\ calls[k].cbs > 0 => calls[k].returned

\* C7 as amended: on a daemon camera execute_command does not wait for the
\* callback: the callback is invoked on the thread of the call, never on the
\* caller's, and execute_command can return in every state of that thread.
C7_ReturnNeverWaits ==
    \A k \in DOMAIN calls :
        calls[k].detached =>
            /\ calls[k].cbs > 0 => calls[k].cbBy = "task"
            /\ ~calls[k].returned => ENABLED ExecReturnDetached(calls[k].caller)

\* execute_command returned while the request was in flight, and the
\* callback fired later on the thread of the call
C7_Witness ==
    \E k \in DOMAIN calls :
        /\ calls[k].detached
        /\ calls[k].returned
        /\ calls[k].cbs = 1
        /\ calls[k].cbBy = "task"

\* C8: the callback of a detached call is invoked exactly once with the pair
\* of its send_command, whatever the transport does and whatever the body
\* is: when the thread of the call has ended, this has happened.
C8_CallbackExactlyOnce ==
    \A k \in DOMAIN calls :
        calls[k].detached /\ calls[k].cb /\ calls[k].ended =>
            /\ calls[k].cbs = 1
            /\ calls[k].out.st = "ret"
            /\ calls[k].cbarg = calls[k].out

\* send_command of call k returned a mapping
HasMap(k) == calls[k].st = "Completed" /\ calls[k].out.res.kind = "map"

Fields(k) == calls[k].out.res.map

Elems(k) == calls[k].t.body.elems

\* C9 as claimed: the mapping never has the key result nor the tag of the
\* root element of the response.
C9_NoResultNoRootKey ==
    \A k \in DOMAIN calls :
        HasMap(k) =>
            /\ ~HasKey(Fields(k), "result")
            /\ ~HasKey(Fields(k), Elems(k)[1].tag)

\* C9 as amended: the mapping never has the key result nor the key
\* CGI_Result.
C9_NoResultNoCgiResultKey ==
    \A k \in DOMAIN calls :
        HasMap(k) =>
            /\ ~HasKey(Fields(k), "result")
            /\ ~HasKey(Fields(k), "CGI_Result")

\* a response with the envelope CGI_Result, a result and a field was decoded
C9_Witness ==
    \E k \in DOMAIN calls :
        /\ HasMap(k)
        /\ Len(Elems(k)) = 3
        /\ Elems(k)[1].tag = "CGI_Result"
        /\ Elems(k)[2].tag = "result"
        /\ Keys(Fields(k)) = {"isEnable"}

\* the percent-decoded text of an element, None when it has none
Decoded(text) == IF text = None THEN None ELSE Str(UnquoteSeq(text.s))

\* the entries of the leaves other than result and the envelope (the root),
\* in document order
LeafFields(elems) ==
    LET Keep(i) == i # 1 /\ IsLeaf(elems, i) /\ elems[i].tag # "result"
        kept == SelectSeq([i \in 1..Len(elems) |-> i], Keep)
    IN  [j \in 1..Len(kept) |-> [k |-> elems[kept[j]].tag, v |-> Decoded(elems[kept[j]].text)]]

\* C10 as claimed: the mapping has exactly one entry per leaf other than
\* result and the envelope, in document order, with the tag as key and the
\* decoded text (or None) as value.
C10_OneEntryPerLeaf ==
    \A k \in DOMAIN calls : HasMap(k) => Fields(k) = LeafFields(Elems(k))

\* C10 as amended: the mapping has exactly one entry per tag of the
\* elements, leaf or not and the root included, that are tagged neither
\* result nor CGI_Result; the keys are in the order of the first element of
\* each tag, and the value is the decoded text (or None) of the last one.
C10_OneEntryPerTag ==
    \A k \in DOMAIN calls :
        HasMap(k) =>
            LET elems == Elems(k)
                map == Fields(k)
                kept == {i \in 1..Len(elems) : elems[i].tag \notin {"result", "CGI_Result"}}
                Of(tag) == {i \in kept : elems[i].tag = tag}
                First(tag) == CHOOSE i \in Of(tag) : \A j \in Of(tag) : i <= j
                Last(tag) == CHOOSE i \in Of(tag) : \A j \in Of(tag) : j <= i
            IN  /\ Keys(map) = {elems[i].tag : i \in kept}
                /\ Len(map) = Cardinality(Keys(map))
                /\ \A a, b \in 1..Len(map) : a < b => First(map[a].k) < First(map[b].k)
                /\ \A a \in 1..Len(map) : map[a].v = Decoded(elems[Last(map[a].k)].text)

\* a root that is no envelope, with a text, holding a field with an escape
\* and a second element of its own tag: its entry comes first, with the
\* value of the second
C10_Witness ==
    \E k \in DOMAIN calls :
        /\ HasMap(k)
        /\ Len(Elems(k)) = 3
        /\ Elems(k)[1].tag = "linkage"
        /\ Elems(k)[1].text # None
        /\ Elems(k)[3].tag = "linkage"
        /\ Fields(k) = << [k |-> "linkage", v |-> None],
                          [k |-> "isEnable", v |-> Str(<<"a", "A">>)] >>

\* the elements of call k's response that are tagged result
ResultsOf(k) == {i \in 1..Len(Elems(k)) : Elems(k)[i].tag = "result"}

\* C11: without raw, the code returned for a parsed response is the integer
\* written in the text of the element tagged exactly result (the last such
\* element, when there are several): the text is the decimal writing of the
\* code, for every device code 0 and -1 .. -7.  Without a result element
\* the code is -7 and the other elements are returned as fields.
C11_CodeIsResultText ==
    \A k \in DOMAIN calls :
        HasMap(k) =>
            LET elems == Elems(k)
                code == calls[k].out.code
                last == CHOOSE i \in ResultsOf(k) : \A j \in ResultsOf(k) : j <= i
            IN  /\ ~calls[k].raw
                /\ ResultsOf(k) # {} =>
                       /\ elems[last].text = Str(PyStr(PyNum(code)))
                       /\ elems[last].text \in {Str(PyStr(PyNum(c))) : c \in DeviceCodes}
                              => code \in DeviceCodes
                /\ ResultsOf(k) = {} =>
                       /\ code = ERROR_FOSCAM_UNKNOWN
                       /\ Keys(Fields(k)) =
                              {elems[i].tag : i \in 1..Len(elems)} \ {"CGI_Result"}

\* a reply with result -5 was decoded to code -5 and its field
C11_Witness ==
    \E k \in DOMAIN calls :
        /\ HasMap(k)
        /\ calls[k].t.body = CodeReply("result", ERROR_FOSCAM_TIMEOUT)
        /\ calls[k].out.code = ERROR_FOSCAM_TIMEOUT
        /\ Keys(Fields(k)) = {"isEnable"}

\* C12: with raw, whatever bytes the transport delivers (nothing, malformed
\* XML, binary data, or a document whose result is no integer),
\* send_command returns 0 and those bytes; nothing is parsed, so the call
\* neither fails to parse nor raises.
C12_RawReturnsBytes ==
    \A k \in DOMAIN calls :
        calls[k].raw /\ calls[k].t.ok /\ calls[k].st \notin {"Idle", "Sending"} =>
            /\ calls[k].st \in {"Decoding", "Completed"}
            /\ calls[k].st = "Completed" =>
                   calls[k].out = Returned(FOSCAM_SUCCESS, ResBytes(calls[k].t.body))

\* a raw call was handed malformed XML and returned it with code 0
C12_Witness ==
    \E k \in DOMAIN calls :
        /\ calls[k].raw
        /\ calls[k].st = "Completed"
        /\ calls[k].t = Delivered(Malformed)
        /\ calls[k].out = Returned(FOSCAM_SUCCESS, ResBytes(Malformed))

ValidEndpoint(a) ==
    /\ a.host # ""
    /\ a.port.t = "int"
    /\ a.port.n >= 1
    /\ a.port.n <= 65535

\* C15: the constructor raises for invalid fields (a port that is no
\* integer or out of range, an empty host), so no camera object exists with
\* such fields and the error never waits for the first command: every
\* command is sent through an endpoint with valid fields.
C15_InvalidFieldsFailAtConstruction ==
    \A k \in DOMAIN calls : calls[k].st # "Idle" => ValidEndpoint(args)

RECURSIVE SplitAmp(_)
\* the parts of a text between its "&"
SplitAmp(s) ==
    LET amps == {i \in 1..Len(s) : s[i] = "&"}
        first == CHOOSE i \in amps : \A j \in amps : i <= j
    IN  IF amps = {} THEN <<s>>
        ELSE <<SubSeq(s, 1, first - 1)>> \o SplitAmp(SubSeq(s, first + 1, Len(s)))

\* what a server reads from a quoted value: "+" is a space, %XY a character
UnquotePlus(s) == UnquoteSeq([i \in 1..Len(s) |-> IF s[i] = "+" THEN " " ELSE s[i]])

\* the URL of call k up to its command name, as C14 gives it
UrlHead(k) ==
    <<IF cam.ssl THEN "https:" ELSE "http:", "//", cam.host, ":">> \o PyStr(cam.port)
    \o <<"/cgi-bin/CGIProxy.fcgi?", "usr=", cam.usr, "&", "pwd=", cam.pwd,
         "&", "cmd=", calls[k].cmd>>

Lands(k) ==
    /\ IsSet(calls[k].cmd)
    /\ calls[k].st = "Sending"
    /\ calls'[k].st = "Decoding"
    /\ calls'[k].t.body = CameraXml(ResultOk, <<>>)

\* C16: operations on one camera are not serialized.  A caller between two
\* operations can start a set whatever the other callers are doing, also
\* one that is between its get and its set, and a set that lands replaces
\* the whole config of the camera by its mapping: the config is that of the
\* last set, nothing of an earlier one is merged in.
C16_NotSerializedLastSetWins ==
    /\ [](\A c \in DOMAIN callers :
              callers[c].pc \in {"idle", "done"} /\ ncalls + Reserved < MaxCalls
                  => ENABLED StartSet(c))
    /\ [][dev' # dev =>
              \E k \in DOMAIN calls :
                  Lands(k) /\ dev' = DeviceStore(calls[k].params.map)]_vars

\* a lost update: the composite of c1 got the config, the set of c2 changed
\* the sensitivity to 5 and was accepted, then the set of c1 landed with the
\* sensitivity it had got; both have returned and the sensitivity is 2
C16_Witness ==
    /\ callers["c1"].pc = "done"
    /\ callers["c2"].pc = "done"
    /\ InSetPhase("c1")
    /\ callers["c1"].enabled = 1
    /\ calls[callers["c1"].call].out.code = FOSCAM_SUCCESS
    /\ callers["c1"].get < callers["c2"].call
    /\ callers["c2"].call < callers["c1"].call
    /\ callers["c2"].ret.t = "pair"
    /\ callers["c2"].ret.code = FOSCAM_SUCCESS
    /\ calls[callers["c2"].call].params.map[3] = [k |-> "sensitivity", v |-> PyNum(5)]
    /\ dev = << [k |-> "linkage", v |-> Str(<<"A", "&", " ">>)],
                [k |-> "isEnable", v |-> Str(<<"1">>)],
                [k |-> "sensitivity", v |-> Str(<<"2">>)] >>

\* C17: detached calls run independently.  No step of the thread of a call
\* waits for another call: a call that is Idle can send, one that is
\* Sending can end, one that is Completed can invoke its callback, whatever
\* the state of the calls made before and after it, so the callbacks of two
\* calls can fire in either order; and the callback of a call is invoked
\* once at most, with the pair send_command made of the transport outcome
\* of this very call.
C17_IndependentCalls ==
    \A k \in DOMAIN calls :
        calls[k].detached =>
            /\ calls[k].st = "Idle" => ENABLED Send(k)
            /\ calls[k].st = "Sending" => ENABLED Fail(k) /\ ENABLED Respond(k)
            /\ calls[k].st = "Decoding" => ENABLED Decode(k)
            /\ calls[k].st = "Completed" /\ calls[k].cb /\ calls[k].cbs = 0 /\ ~calls[k].ended
                   => ENABLED Callback(k)
            /\ calls[k].cbs <= 1
            /\ calls[k].cbs = 1 =>
                   /\ calls[k].cbarg = calls[k].out
                   /\ calls[k].cbarg = SendCommand(calls[k].raw, calls[k].t)

\* two detached calls of one caller, A made before B: the callback of B has
\* fired with the pair of B while A, which failed, has its callback yet to
\* come
C17_Witness ==
    \E a, b \in DOMAIN calls :
        /\ a < b
        /\ calls[a].detached /\ calls[b].detached
        /\ calls[a].caller = calls[b].caller
        /\ calls[a].st = "Completed"
        /\ calls[a].out = Returned(ERROR_FOSCAM_UNAVAILABLE, ResNone)
        /\ calls[a].cbs = 0
        /\ calls[b].cbs = 1
        /\ calls[b].cbarg = Returned(FOSCAM_SUCCESS, ResMap(<<>>))

\* the place of a state in Idle -> Sending -> Decoding -> Completed
Rank(st) ==
    IF st = "Idle" THEN 0 ELSE IF st = "Sending" THEN 1 ELSE IF st = "Decoding" THEN 2 ELSE 3

\* the transport of call k failed, or its body was not decoded: it did not
\* parse, or its result text is no integer
TransportOrDecodeFailure(k) ==
    \/ TransportOrParseFailure(k)
    \/ ~calls[k].raw /\ SendCommand(FALSE, calls[k].t).st = "raise"

\* C18: a call is single-shot.  It is Idle, Sending, Decoding or Completed
\* and never goes back; it has issued no request while Idle and exactly one
\* from then on; and after a transport or decode failure it is Completed
\* with code -8.
C18_SingleShot ==
    /\ [](\A k \in DOMAIN calls :
              /\ calls[k].st \in {"Idle", "Sending", "Decoding", "Completed"}
              /\ calls[k].nreq = IF calls[k].st = "Idle" THEN 0 ELSE 1
              /\ Ended(k) /\ TransportOrDecodeFailure(k) =>
                     /\ calls[k].st = "Completed"
                     /\ calls[k].out.st = "ret"
                     /\ calls[k].out.code = ERROR_FOSCAM_UNAVAILABLE)
    /\ [][\A k \in DOMAIN calls \cap DOMAIN calls' :
              Rank(calls'[k].st) >= Rank(calls[k].st)]_vars

\* C19: a synchronous call does not hang and comes back Completed.  While
\* it is Sending the timeout can end it, whatever the transport does; a
\* call ended by the transport is Completed with (-8, None); and a call
\* that is over has reached Completed and has returned to its caller.
C19_SyncCallCompletes ==
    \A k \in DOMAIN calls :
        ~calls[k].detached =>
            /\ calls[k].st = "Sending" => ENABLED Fail(k)
            /\ calls[k].st = "Completed" /\ ~calls[k].t.ok =>
                   calls[k].out = Returned(ERROR_FOSCAM_UNAVAILABLE, ResNone)
            /\ calls[k].ended => calls[k].st = "Completed" /\ calls[k].returned

\* C20: no operation changes the camera object or the parameters of a
\* call.  In every state host, port, usr, pwd, ssl, daemon and verbose are
\* what the constructor made of its arguments, no step changes one of them,
\* and no step changes the mapping a caller passed to a call.
C20_EndpointAndParamsUnchanged ==
    /\ [](cam = ConstructFrom(args))
    /\ [][/\ cam' = cam
          /\ \A k \in DOMAIN calls \cap DOMAIN calls' :
                 calls'[k].params = calls[k].params]_vars

\* a composite has returned after its get and its set were answered: the
\* camera object is as constructed and the set still holds the mapping the
\* composite gave it, while send_command returned another one
C20_Witness ==
    \E c \in DOMAIN callers :
        /\ InSetPhase(c)
        /\ callers[c].pc = "done"
        /\ cam = ConstructFrom(args)
        /\ calls[callers[c].call].out = Returned(FOSCAM_SUCCESS, ResMap(<<>>))
        /\ calls[callers[c].call].params =
               ResMap(Mutate(calls[callers[c].get].out.res.map, callers[c].enabled))
        /\ Len(calls[callers[c].call].params.map) = 3

\* C21: on a synchronous camera, when execute_command has returned, a
\* callback that was supplied has been invoked exactly once, on the
\* caller's thread, with the pair execute_command returns, and without a
\* callback nothing was invoked.  On a daemon camera execute_command
\* returns None; the pair reaches the callback only, and without a callback
\* it reaches nobody.
C21_SyncCallbackThenReturn ==
    /\ \A k \in DOMAIN calls :
           /\ calls[k].cbs <= 1
           /\ ~calls[k].cb => calls[k].cbs = 0 /\ calls[k].cbarg = Pending
           /\ ~calls[k].detached /\ calls[k].cbs = 1 => calls[k].cbBy = "caller"
           /\ ~calls[k].detached /\ calls[k].returned =>
                  /\ calls[k].out.st = "ret"
                  /\ calls[k].cb => calls[k].cbs = 1 /\ calls[k].cbarg = calls[k].out
    /\ \A c \in DOMAIN callers :
           callers[c].op = "exec" /\ callers[c].pc = "done" =>
               LET k == callers[c].call IN
               IF calls[k].detached
               THEN callers[c].ret = RetNone
               ELSE /\ callers[c].ret = RetPair(calls[k].out)
                    /\ calls[k].cb => callers[c].ret = RetPair(calls[k].cbarg)

\* a synchronous get with a callback has returned (0, mapping) to its
\* caller after the callback was invoked once with that pair on the
\* caller's thread
C21_Witness ==
    \E c \in DOMAIN callers :
        /\ callers[c].op = "exec"
        /\ callers[c].pc = "done"
        /\ ~calls[callers[c].call].detached
        /\ calls[callers[c].call].cb
        /\ calls[callers[c].call].cbs = 1
        /\ calls[callers[c].call].cbBy = "caller"
        /\ calls[callers[c].call].cbarg.code = FOSCAM_SUCCESS
        /\ calls[callers[c].call].cbarg.res.kind = "map"
        /\ Len(calls[callers[c].call].cbarg.res.map) = 3
        /\ callers[c].ret = RetPair(calls[callers[c].call].cbarg)

====
